---- MODULE Spec2Model ----
(***************************************************************************)
(* dmcontent/converters.py and dmcontent/govuk_frontend.py as a state      *)
(* machine.  Every function of the two modules is pure, so a behaviour is  *)
(* one call: Init draws the function and its arguments, the action of the  *)
(* function computes the outcome (a returned value or an uncaught          *)
(* exception) and moves pc from "start" to "done".                         *)
(*                                                                         *)
(* Python values carry their type as a tag, so that "0", 0 and False stay  *)
(* different values.  A str is a sequence of one-character strings.        *)
(***************************************************************************)
EXTENDS Integers, Sequences, FiniteSets, TLC

VARIABLES pc, fn, value, prefix, suffix, question, data, errors, result

vars == <<pc, fn, value, prefix, suffix, question, data, errors, result>>

(***************************************************************************)
(* Bounds                                                                  *)
(***************************************************************************)
\* longest str drawn exhaustively over NumChars for the converters
MaxLen == 3
\* longest text drawn exhaustively over HtmlChars for a question's fields
MaxText == 1

(***************************************************************************)
(* Python values                                                           *)
(***************************************************************************)
PyStr(s) == [tag |-> "str", v |-> s]
PyInt(n) == [tag |-> "int", v |-> n]
PyBool(b) == [tag |-> "bool", v |-> b]
\* a float, kept exactly as mantissa and number of decimal places
PyFloat(m, d) == [tag |-> "float", v |-> <<m, d>>]
None == [tag |-> "none", v |-> "None"]

\* isinstance(value, str)
IsStr(x) == x.tag = "str"

\* bool(x) for the values that reach an `if` or an `and` in the two modules
Truthy(x) ==
    CASE x.tag = "none" -> FALSE
      [] x.tag = "str" -> Len(x.v) > 0
      [] x.tag = "int" -> x.v # 0
      [] x.tag = "bool" -> x.v
      [] x.tag = "float" -> x.v[1] # 0
      [] x.tag = "dict" -> DOMAIN x.v # {}

\* outcome of a call: it returns a value, or an exception leaves it
Return(x) == [kind |-> "return", value |-> x]
Raise(e) == [kind |-> "raise", exc |-> e]
NoResult == [kind |-> "none"]

\* all sequences over S of length at most n
SeqUpTo(S, n) == UNION {[1..k -> S] : k \in 0..n}

(***************************************************************************)
(* str methods                                                             *)
(***************************************************************************)
UpperCase == [t |-> "T", r |-> "R", u |-> "U", e |-> "E", o |-> "O",
              n |-> "N", y |-> "Y", s |-> "S", f |-> "F", a |-> "A",
              l |-> "L", h |-> "H"]

\* str.lower() on one character
LowerChar(c) ==
    IF \E lc \in DOMAIN UpperCase : UpperCase[lc] = c
    THEN CHOOSE lc \in DOMAIN UpperCase : UpperCase[lc] = c
    ELSE c

\* str.lower()
lower(s) == [i \in 1..Len(s) |-> LowerChar(s[i])]

\* str.startswith(p)
startswith(s, p) == Len(p) <= Len(s) /\ SubSeq(s, 1, Len(p)) = p

\* str.endswith(p)
endswith(s, p) == Len(p) <= Len(s) /\ SubSeq(s, Len(s) - Len(p) + 1, Len(s)) = p

\* "." in s
HasDot(s) == \E i \in 1..Len(s) : s[i] = "."

(***************************************************************************)
(* int(str) and float(str), for text without whitespace, underscores or an *)
(* exponent: an optional sign, then digits, for float with at most one     *)
(* point among them and at least one digit.                                *)
(***************************************************************************)
Digits == <<"0", "1", "2", "3", "4", "5", "6", "7", "8", "9">>

IsDigit(c) == \E i \in 1..10 : Digits[i] = c

DigitVal(c) == (CHOOSE i \in 1..10 : Digits[i] = c) - 1

HasSign(s) == Len(s) > 0 /\ s[1] \in {"+", "-"}

Unsigned(s) == IF HasSign(s) THEN Tail(s) ELSE s

SignOf(s) == IF Len(s) > 0 /\ s[1] = "-" THEN -1 ELSE 1

RECURSIVE DigitsValue(_)
DigitsValue(s) ==
    IF s = <<>> THEN 0
    ELSE 10 * DigitsValue(SubSeq(s, 1, Len(s) - 1)) + DigitVal(s[Len(s)])

\* int(s) succeeds
IntParses(s) ==
    /\ Len(Unsigned(s)) > 0
    /\ \A i \in 1..Len(Unsigned(s)) : IsDigit(Unsigned(s)[i])

\* int(s)
IntOf(s) == SignOf(s) * DigitsValue(Unsigned(s))

\* float(s) succeeds
FloatParses(s) ==
    LET u == Unsigned(s) IN
    /\ \E i \in 1..Len(u) : IsDigit(u[i])
    /\ \A i \in 1..Len(u) : IsDigit(u[i]) \/ u[i] = "."
    /\ Cardinality({i \in 1..Len(u) : u[i] = "."}) <= 1

RECURSIVE Normalize(_, _)
Normalize(m, d) ==
    IF d > 0 /\ m % 10 = 0 THEN Normalize(m \div 10, d - 1) ELSE PyFloat(m, d)

\* float(s)
FloatOf(s) ==
    LET u == Unsigned(s)
        ds == SelectSeq(u, IsDigit)
        places == IF HasDot(u)
                  THEN Len(u) - (CHOOSE i \in 1..Len(u) : u[i] = ".")
                  ELSE 0
    IN Normalize(SignOf(s) * DigitsValue(ds), places)

(***************************************************************************)
(* converters.py                                                           *)
(***************************************************************************)
Truthy_strings == {<<"t">>, <<"t", "r", "u", "e">>, <<"o", "n">>,
                   <<"y", "e", "s">>, <<"1">>}

Falsey_strings == {<<"f">>, <<"f", "a", "l", "s", "e">>, <<"o", "f", "f">>,
                   <<"n", "o">>, <<"0">>}

\* variant: the comparison forgets value.lower()
convert_to_boolean_nolower(v) ==
    IF IsStr(v)
    THEN IF v.v \in Truthy_strings THEN Return(PyBool(TRUE))
         ELSE IF v.v \in Falsey_strings THEN Return(PyBool(FALSE))
         ELSE Return(v)
    ELSE Return(v)

convert_to_boolean(v) ==
    IF IsStr(v)
    THEN IF lower(v.v) \in Truthy_strings THEN Return(PyBool(TRUE))
         ELSE IF lower(v.v) \in Falsey_strings THEN Return(PyBool(FALSE))
         ELSE Return(v)
    ELSE Return(v)

\* variant: every leading occurrence of the prefix goes
RECURSIVE StripPrefix_all(_, _)
StripPrefix_all(s, p) ==
    IF Truthy(p) /\ startswith(s, p.v)
    THEN StripPrefix_all(SubSeq(s, Len(p.v) + 1, Len(s)), p)
    ELSE s

\* line 46-47: the value after the prefix step (str value only)
StripPrefix(s, p) ==
    IF Truthy(p) /\ startswith(s, p.v) THEN SubSeq(s, Len(p.v) + 1, Len(s)) ELSE s

\* line 48-49: the value after the suffix step (str value only)
StripSuffix(s, x) ==
    IF Truthy(x) /\ endswith(s, x.v) THEN SubSeq(s, 1, Len(s) - Len(x.v)) ELSE s

\* lines 46-49 on a str value
Stripped(s, p, x) == StripSuffix(StripPrefix(s, p), x)

\* variant: float() is tried first, whatever the text looks like
ParseNumber_floaty(s) ==
    IF FloatParses(s) THEN Return(FloatOf(s))
    ELSE IF IntParses(s) THEN Return(PyInt(IntOf(s))) ELSE Return(PyStr(s))

\* lines 51-54 on a str value
ParseNumber(s) ==
    IF HasDot(s)
    THEN IF FloatParses(s) THEN Return(FloatOf(s)) ELSE Return(PyStr(s))
    ELSE IF IntParses(s) THEN Return(PyInt(IntOf(s))) ELSE Return(PyStr(s))

\* variant: a failed parse gives back the argument as it was passed
convert_to_number_original(v, p, x) ==
    IF IsStr(v)
    THEN IF ParseNumber(Stripped(v.v, p, x)).value.tag = "str"
         THEN Return(v)
         ELSE ParseNumber(Stripped(v.v, p, x))
    ELSE IF Truthy(p) \/ Truthy(x)
         THEN Raise("AttributeError")
         ELSE Return(v)

convert_to_number(v, p, x) ==
    IF IsStr(v)
    THEN ParseNumber(Stripped(v.v, p, x))
    ELSE IF Truthy(p) \/ Truthy(x)
         \* value.startswith / value.endswith on a value that has none
         THEN Raise("AttributeError")
         \* `"." in value` or int(value) raises TypeError, which is caught
         ELSE Return(v)

(***************************************************************************)
(* govuk_frontend.py                                                       *)
(*                                                                         *)
(* A Question is a function from the names of the attributes it has to     *)
(* their values; id, type, question and is_optional are always there,      *)
(* question_advice and hint may be missing.  A dict is a function from its *)
(* keys to its values, tagged "dict".                                      *)
(***************************************************************************)
Dict(f) == [tag |-> "dict", v |-> f]
Markup(s) == [tag |-> "markup", v |-> s]
Tuple(t) == [tag |-> "tuple", v |-> t]

\* Question.get(key): the attribute, or None when the question has none
QuestionGet(q, key) == IF key \in DOMAIN q THEN q[key] ELSE None

\* jinja2.escape on one character
EscapeChar(c) ==
    CASE c = "&" -> <<"&", "a", "m", "p", ";">>
      [] c = "<" -> <<"&", "l", "t", ";">>
      [] c = ">" -> <<"&", "g", "t", ";">>
      [] c = "'" -> <<"&", "#", "3", "9", ";">>
      [] c = "\"" -> <<"&", "#", "3", "4", ";">>
      [] OTHER -> <<c>>

\* jinja2.escape on the characters of a str
RECURSIVE escape(_)
escape(s) == IF s = <<>> THEN <<>> ELSE EscapeChar(Head(s)) \o escape(Tail(s))

\* dmutils.forms.errors.govuk_error: the formatted message of an error token
govuk_error(e) == [errorMessage |-> [text |-> e]]

InputPrefix == <<"i", "n", "p", "u", "t", "-">>
OptionalSuffix == <<" ", "(", "o", "p", "t", "i", "o", "n", "a", "l", ")">>
AdviceOpen == <<"<div class=\"app-hint--text\">", "\n">>
AdviceClose == <<"\n", "</div>">>
LineBreak == <<"\n">>

\* variant: the suffix is appended whatever is_optional says
label_text_always(q) == q.question \o OptionalSuffix

\* lines 109-113
label_text(q) ==
    IF q.is_optional THEN q.question \o OptionalSuffix ELSE q.question

\* variant: no line break between the advice and the hint
hint_html_nobreak(q) ==
    LET advice == IF Truthy(QuestionGet(q, "question_advice"))
                  THEN AdviceOpen \o escape(q.question_advice.v) \o AdviceClose
                  ELSE <<>>
        hint == IF Truthy(QuestionGet(q, "hint")) THEN escape(q.hint.v) ELSE <<>>
    IN advice \o hint

\* lines 125-141
hint_html(q) ==
    LET advice == IF Truthy(QuestionGet(q, "question_advice"))
                  THEN AdviceOpen \o escape(q.question_advice.v) \o AdviceClose
                       \o (IF Truthy(QuestionGet(q, "hint")) THEN LineBreak ELSE <<>>)
                  ELSE <<>>
        hint == IF Truthy(QuestionGet(q, "hint")) THEN escape(q.hint.v) ELSE <<>>
    IN advice \o hint

\* variant: the entry is looked up with data.get() and dropped when falsy
value_param_truthy(q, d) ==
    IF Truthy(d) /\ q.id \in DOMAIN d.v /\ Truthy(d.v[q.id])
    THEN "value" :> d.v[q.id]
    ELSE <<>>

\* lines 146-147
value_param(q, d) ==
    IF Truthy(d) /\ q.id \in DOMAIN d.v THEN "value" :> d.v[q.id] ELSE <<>>

\* lines 149-150
error_param(q, e) ==
    IF Truthy(e) /\ q.id \in DOMAIN e.v
    THEN "errorMessage" :> govuk_error(e.v[q.id]).errorMessage
    ELSE <<>>

\* variant: the hint is set without looking at hint_html
_params_always_hint(q, d, e) ==
    LET base == [id |-> InputPrefix \o q.id,
                 name |-> q.id,
                 label |-> [classes |-> "govuk-label--l",
                            isPageHeading |-> TRUE,
                            text |-> label_text(q)]]
        hint == "hint" :> [html |-> Markup(hint_html(q))]
    IN base @@ hint @@ value_param(q, d) @@ error_param(q, e)

_params(q, d, e) ==
    LET base == [id |-> InputPrefix \o q.id,
                 name |-> q.id,
                 label |-> [classes |-> "govuk-label--l",
                            isPageHeading |-> TRUE,
                            text |-> label_text(q)]]
        hint == IF hint_html(q) # <<>>
                THEN "hint" :> [html |-> Markup(hint_html(q))]
                ELSE <<>>
    IN base @@ hint @@ value_param(q, d) @@ error_param(q, e)

govuk_input(q, d, e) ==
    ("classes" :> "app-text-input--height-compatible") @@ _params(q, d, e)

\* variant: only the types known not to be inputs are turned away
from_question_anytype(q, d, e) ==
    IF q.type # "radios"
    THEN Return(Tuple(<<"govukInput", govuk_input(q, d, e)>>))
    ELSE Return(None)

from_question(q, d, e) ==
    IF q.type = "text"
    THEN Return(Tuple(<<"govukInput", govuk_input(q, d, e)>>))
    ELSE Return(None)

(***************************************************************************)
(* Arguments                                                               *)
(***************************************************************************)
NumChars == {"0", "1", ".", "£", "k", "g"}

\* every way of casing the letters of a lower-case word
CaseVariants(w) ==
    {s \in [1..Len(w) -> {w[i] : i \in 1..Len(w)}
                          \cup {UpperCase[c] : c \in {w[i] : i \in 1..Len(w)} \cap DOMAIN UpperCase}] :
        lower(s) = w}

SampleStrings ==
    {<<"f", "a", "l", "s", "e", "y">>, <<"o", "t", "h", "e", "r">>,
     <<"t", "r">>, <<"y", "e", "s", "s">>, <<"2">>,
     <<"9", "9", "9", "9", "9">>, <<"0", ".", "9", "9">>, <<"-", "1">>,
     <<"+", "1", ".", "5">>, <<"1", ".", "1", "0">>,
     <<"£", "1", "0", "0">>, <<"1", "0", "0", "k", "g">>,
     <<"a", "b", "c", "k", "g">>, <<"£", "1", ".", "5", "k", "g">>}

Strings ==
    SeqUpTo(NumChars, MaxLen) \cup SampleStrings
    \cup UNION {CaseVariants(w) : w \in Truthy_strings \cup Falsey_strings}

NonText == {PyInt(0), PyInt(1), PyInt(123), PyBool(TRUE), PyBool(FALSE), None}

Values == {PyStr(s) : s \in Strings} \cup NonText

\* prefix= and suffix= : not given (None), or a str
Affixes == {None, PyStr(<<>>), PyStr(<<"£">>), PyStr(<<"1">>), PyStr(<<"k", "g">>)}

HtmlChars == {"a", "<"}

Texts == {PyStr(s) : s \in SeqUpTo(HtmlChars, MaxText)}

Prompts == SeqUpTo(HtmlChars, MaxText) \ {<<>>}

Id1 == <<"q", "1">>
Id2 == <<"q", "2">>

Types == {"text", "radios", "unknown"}

Questions ==
    {core @@ advice @@ hint :
        core \in [id : {Id1}, type : Types, question : Prompts, is_optional : BOOLEAN],
        advice \in {<<>>} \cup {"question_advice" :> t : t \in Texts},
        hint \in {<<>>} \cup {"hint" :> t : t \in Texts}}

DataValues == {PyStr(<<>>), PyStr(<<"a">>), PyInt(0), PyBool(FALSE), None}

DataMaps ==
    {None} \cup {Dict(a @@ b) : a \in {<<>>} \cup {Id1 :> x : x \in DataValues},
                                b \in {<<>>, Id2 :> PyInt(7)}}

ErrorMaps ==
    {None} \cup {Dict(a @@ b) : a \in {<<>>, Id1 :> "answer_required"},
                                b \in {<<>>, Id2 :> "answer_required"}}

NoQuestion == <<>>

(***************************************************************************)
(* The calls                                                               *)
(***************************************************************************)
Init ==
    /\ pc = "start"
    /\ result = NoResult
    /\ \/ /\ fn = "convert_to_boolean"
          /\ value \in Values
          /\ prefix = None /\ suffix = None
          /\ question = NoQuestion /\ data = None /\ errors = None
       \/ /\ fn = "convert_to_number"
          /\ value \in Values
          /\ prefix \in Affixes /\ suffix \in Affixes
          /\ question = NoQuestion /\ data = None /\ errors = None
       \/ /\ fn \in {"from_question", "govuk_input"}
          /\ value = None /\ prefix = None /\ suffix = None
          /\ question \in Questions
          /\ data \in DataMaps
          /\ errors \in ErrorMaps

ConvertToBoolean ==
    /\ pc = "start" /\ fn = "convert_to_boolean"
    /\ result' = convert_to_boolean(value)
    /\ pc' = "done"
    /\ UNCHANGED <<fn, value, prefix, suffix, question, data, errors>>

ConvertToNumber ==
    /\ pc = "start" /\ fn = "convert_to_number"
    /\ result' = convert_to_number(value, prefix, suffix)
    /\ pc' = "done"
    /\ UNCHANGED <<fn, value, prefix, suffix, question, data, errors>>

FromQuestion ==
    /\ pc = "start" /\ fn = "from_question"
    /\ result' = from_question(question, data, errors)
    /\ pc' = "done"
    /\ UNCHANGED <<fn, value, prefix, suffix, question, data, errors>>

GovukInput ==
    /\ pc = "start" /\ fn = "govuk_input"
    /\ result' = Return(Dict(govuk_input(question, data, errors)))
    /\ pc' = "done"
    /\ UNCHANGED <<fn, value, prefix, suffix, question, data, errors>>

Next == ConvertToBoolean \/ ConvertToNumber \/ FromQuestion \/ GovukInput

Spec == Init /\ [][Next]_vars

TypeOK ==
    /\ pc \in {"start", "done"}
    /\ (pc = "start") = (result = NoResult)

(***************************************************************************)
(* Properties                                                              *)
(***************************************************************************)
Done(f) == pc = "done" /\ fn = f

\* a parameters dict was built by the call
HasParams ==
    \/ Done("govuk_input")
    \/ Done("from_question") /\ question.type = "text"

\* the parameters dict the call built
Built == IF fn = "govuk_input" THEN result.value.v ELSE result.value.v[2]

\* the question has the attribute and its text is not empty
NonEmpty(key) == key \in DOMAIN question /\ question[key].v # <<>>

\* the question has the attribute
Present(key) == key \in DOMAIN question

\* C1: from_question returns a descriptor exactly when question.type is
\* "text": then the pair of the input macro's name and the common parameters
\* plus the height-compatible class; for every other type, with any data and
\* errors, it returns None and raises nothing.
C1_DispatchOnText ==
    Done("from_question") =>
        /\ result.kind = "return"
        /\ (result.value.tag = "tuple") = (question.type = "text")
        /\ question.type # "text" => result.value = None
        /\ question.type = "text" =>
            LET common == _params(question, data, errors)
                built == result.value.v[2]
            IN /\ Len(result.value.v) = 2
               /\ result.value.v[1] = "govukInput"
               /\ "classes" \notin DOMAIN common
               /\ DOMAIN built = DOMAIN common \cup {"classes"}
               /\ built["classes"] = "app-text-input--height-compatible"
               /\ \A k \in DOMAIN common : built[k] = common[k]

C1_Witness ==
    /\ Done("from_question")
    /\ question.type = "text"
    /\ result.value.tag = "tuple"
    /\ DOMAIN result.value.v[2] =
           {"id", "name", "label", "hint", "value", "errorMessage", "classes"}

\* s is the word w in some letter casing
IsCasingOf(s, w) ==
    /\ Len(s) = Len(w)
    /\ \A i \in 1..Len(w) :
          \/ s[i] = w[i]
          \/ w[i] \in DOMAIN UpperCase /\ s[i] = UpperCase[w[i]]

TrueWords == {<<"t">>, <<"t", "r", "u", "e">>, <<"o", "n">>, <<"y", "e", "s">>, <<"1">>}
FalseWords == {<<"f">>, <<"f", "a", "l", "s", "e">>, <<"o", "f", "f">>, <<"n", "o">>, <<"0">>}

LooksTrue(x) == IsStr(x) /\ \E w \in TrueWords : IsCasingOf(x.v, w)
LooksFalse(x) == IsStr(x) /\ \E w \in FalseWords : IsCasingOf(x.v, w)

\* C2: convert_to_boolean never raises; a str that is t, true, on, yes or 1
\* in any casing gives True, one that is f, false, off, no or 0 gives False,
\* and every other value, str or not, comes back as it is.
C2_BooleanWords ==
    Done("convert_to_boolean") =>
        /\ result.kind = "return"
        /\ LooksTrue(value) => result.value = PyBool(TRUE)
        /\ LooksFalse(value) => result.value = PyBool(FALSE)
        /\ ~LooksTrue(value) /\ ~LooksFalse(value) => result.value = value

C2_Witness ==
    /\ Done("convert_to_boolean")
    /\ value = PyStr(<<"F", "a", "L", "s", "E">>)
    /\ result = Return(PyBool(FALSE))

\* C3: convert_to_number without prefix or suffix: a str that parses as an
\* integer and has no decimal point gives that int; a str with a decimal
\* point that parses as a number gives a float; a value that does not parse
\* as a number, or is not a str, comes back as it is.
C3_NumberTyping ==
    (Done("convert_to_number") /\ prefix = None /\ suffix = None) =>
        /\ (IsStr(value) /\ ~HasDot(value.v) /\ IntParses(value.v)) =>
               result = Return(PyInt(IntOf(value.v)))
        /\ (IsStr(value) /\ HasDot(value.v) /\ FloatParses(value.v)) =>
               result.kind = "return" /\ result.value.tag = "float"
        /\ (~IsStr(value) \/ (~IntParses(value.v) /\ ~FloatParses(value.v))) =>
               result = Return(value)

C3_Witness ==
    /\ Done("convert_to_number") /\ prefix = None /\ suffix = None
    /\ value = PyStr(<<"9", "9", "9", "9", "9">>)
    /\ result = Return(PyInt(99999))

\* C4: convert_to_number never raises: a value that is not a str, with any
\* prefix and suffix given or not, skips the stripping and comes back as it
\* is.
C4_NonTextNeverRaises ==
    (Done("convert_to_number") /\ ~IsStr(value)) => result = Return(value)

\* the text convert_to_number is left with after the stripping is no number
ParseFails(s) == IF HasDot(s) THEN ~FloatParses(s) ELSE ~IntParses(s)

\* what is left of s once one leading p is taken off, s itself if there is none
WithoutLeading(s, p) ==
    IF \E k \in 1..(Len(s) + 1) : s = p \o SubSeq(s, k, Len(s))
    THEN SubSeq(s, (CHOOSE k \in 1..(Len(s) + 1) : s = p \o SubSeq(s, k, Len(s))), Len(s))
    ELSE s

\* what is left of s once one trailing p is taken off, s itself if there is none
WithoutTrailing(s, p) ==
    IF \E k \in 0..Len(s) : s = SubSeq(s, 1, k) \o p
    THEN SubSeq(s, 1, CHOOSE k \in 0..Len(s) : s = SubSeq(s, 1, k) \o p)
    ELSE s

\* the text left of a str value after the prefix, then the suffix, is removed
Remainder ==
    LET a == IF prefix = None THEN value.v ELSE WithoutLeading(value.v, prefix.v)
    IN IF suffix = None THEN a ELSE WithoutTrailing(a, suffix.v)

C6_StripOnceThenParse ==
    (Done("convert_to_number") /\ IsStr(value) /\ (prefix # None \/ suffix # None)) =>
        /\ result.kind = "return"
        /\ ParseFails(Remainder) => result.value = PyStr(Remainder)
        /\ (~ParseFails(Remainder) /\ ~HasDot(Remainder)) =>
               result.value = PyInt(IntOf(Remainder))
        /\ (~ParseFails(Remainder) /\ HasDot(Remainder)) =>
               result.value = FloatOf(Remainder)
        /\ (value = PyStr(<<"£", "1", "0", "0">>) /\ prefix = PyStr(<<"£">>) /\ suffix = None) =>
               result.value = PyInt(100)
        /\ (value = PyStr(<<"1", "0", "0", "k", "g">>) /\ prefix = None /\ suffix = PyStr(<<"k", "g">>)) =>
               result.value = PyInt(100)
        /\ (value = PyStr(<<"a", "b", "c", "k", "g">>) /\ prefix = None /\ suffix = PyStr(<<"k", "g">>)) =>
               result.value = PyStr(<<"a", "b", "c">>)

C6_Witness ==
    /\ Done("convert_to_number")
    /\ value = PyStr(<<"£", "£", "1">>)
    /\ prefix = PyStr(<<"£">>) /\ suffix = PyStr(<<"k", "g">>)
    /\ result = Return(PyStr(<<"£", "1">>))

\* C7: the parameters have a hint exactly when question_advice or hint is
\* there and not empty on the question; with both missing or empty there is
\* no hint key at all.
C7_HintIffAdviceOrHint ==
    HasParams =>
        /\ ("hint" \in DOMAIN Built) = (NonEmpty("question_advice") \/ NonEmpty("hint"))
        /\ "hint" \in DOMAIN Built => Built["hint"].html.v # <<>>

C7_Witness ==
    /\ HasParams
    /\ Present("question_advice") /\ ~NonEmpty("question_advice")
    /\ Present("hint") /\ ~NonEmpty("hint")
    /\ "hint" \notin DOMAIN Built

\* the advice in its div, escaped
AdviceBlock ==
    <<"<div class=\"app-hint--text\">", "\n">> \o escape(question.question_advice.v)
        \o <<"\n", "</div>">>

\* C8 as stated: the hint HTML is the advice block when question_advice is
\* there and not empty, then one line break when question_advice is not empty
\* and hint is there, then the escaped hint when hint is there.
C8_Original ==
    HasParams =>
        LET expected ==
                (IF NonEmpty("question_advice") THEN AdviceBlock ELSE <<>>)
                \o (IF NonEmpty("question_advice") /\ Present("hint") THEN <<"\n">> ELSE <<>>)
                \o (IF Present("hint") THEN escape(question.hint.v) ELSE <<>>)
        IN IF "hint" \in DOMAIN Built
           THEN Built["hint"].html.v = expected
           ELSE expected = <<>>

\* C8 (amended): the hint HTML is the advice block when question_advice is
\* there and not empty, then one line break when question_advice is not empty
\* and hint is there and not empty, then the escaped hint when hint is there.
C8_HintHtmlOrder ==
    HasParams =>
        LET expected ==
                (IF NonEmpty("question_advice") THEN AdviceBlock ELSE <<>>)
                \o (IF NonEmpty("question_advice") /\ NonEmpty("hint") THEN <<"\n">> ELSE <<>>)
                \o (IF Present("hint") THEN escape(question.hint.v) ELSE <<>>)
        IN IF "hint" \in DOMAIN Built
           THEN Built["hint"].html = Markup(expected)
           ELSE expected = <<>>

C8_Witness ==
    /\ HasParams
    /\ Present("question_advice") /\ Present("hint")
    /\ question.question_advice = PyStr(<<"<">>)
    /\ question.hint = PyStr(<<"a">>)
    /\ Built["hint"].html.v =
           <<"<div class=\"app-hint--text\">", "\n", "&", "l", "t", ";", "\n", "</div>", "\n", "a">>

\* C9: the parameters have a value exactly when a data dict was passed and
\* has the question's id, and the value is that entry as it is, also an
\* empty, zero, false or None one.
C9_ValueIffInData ==
    HasParams =>
        /\ ("value" \in DOMAIN Built) = (data.tag = "dict" /\ question.id \in DOMAIN data.v)
        /\ "value" \in DOMAIN Built => Built["value"] = data.v[question.id]

C9_Witness ==
    /\ HasParams
    /\ data.tag = "dict" /\ question.id \in DOMAIN data.v
    /\ data.v[question.id] = None
    /\ "value" \in DOMAIN Built /\ Built["value"] = None

\* C10: the label text is the question's prompt with " (optional)" after it
\* exactly when is_optional is true, the prompt itself otherwise, and the
\* call leaves the question's prompt as it was.
C10_LabelOptional ==
    [][(pc = "start" /\ fn \in {"govuk_input", "from_question"}) =>
          /\ question'.question = question.question
          /\ HasParams' =>
                /\ question.is_optional =>
                      Built'["label"].text =
                          question.question \o <<" ", "(", "o", "p", "t", "i", "o", "n", "a", "l", ")">>
                /\ ~question.is_optional => Built'["label"].text = question.question]_vars

C10_Witness ==
    /\ HasParams
    /\ question.is_optional
    /\ question.question = <<"a">>
    /\ Built["label"].text = <<"a", " ", "(", "o", "p", "t", "i", "o", "n", "a", "l", ")">>

====
